---- MODULE Spec2Model ----
(***************************************************************************)
(* Model of the 5G NR setting application.                                 *)
(*                                                                         *)
(*   src/src/app.py          the /api/5g_config handler: aggregation of    *)
(*                           road and building tags, the population        *)
(*                           density estimate and the decision table       *)
(*   src/src/extract_map.py  the batch extraction script (fetch, then      *)
(*                           convert to GeoJSON)                           *)
(*                                                                         *)
(* Numbers.  Python computes the means and the density in floating point.  *)
(* Here a number is an exact fraction [num, den] with den > 0.  The means  *)
(* are quotients of small integers and are compared with the integers 3,   *)
(* 50 and 70 only, so the exact comparison and the floating point          *)
(* comparison agree.  math.pi is the fraction PiNum / PiDen.               *)
(*                                                                         *)
(* Strings.  A tag value is a sequence of one-character strings, so that   *)
(* int() is computed from the characters and the empty string is <<>>.     *)
(***************************************************************************)
EXTENDS Integers, Sequences, FiniteSets, TLC

VARIABLES
    lat, lon,              \* request.args.get("lat"), request.args.get("lon")
    road_data,             \* what fetch_osm_data returned for the road query
    building_data,         \* what fetch_osm_data returned for the building query
    avg_speed, road_count,
    building_count, avg_floors,
    radius, occupants_per_floor,
    population_density,
    config,
    response,              \* the outcome of the last call
    x_mode, x_pc, x_files, x_status, x_read   \* extract_map.main; x_read: the files
                                              \* convert_to_geojson opened or tried to open

vars == <<lat, lon, road_data, building_data, avg_speed, road_count,
          building_count, avg_floors, radius, occupants_per_floor,
          population_density, config, response,
          x_mode, x_pc, x_files, x_status, x_read>>

appVars == <<lat, lon, road_data, building_data, avg_speed, road_count,
             building_count, avg_floors, radius, occupants_per_floor,
             population_density, config, response>>

extractVars == <<x_mode, x_pc, x_files, x_status, x_read>>

----------------------------------------------------------------------------
(* Bounds of the model *)

MaxRoads == 2          \* longest list of road elements
MaxBuildings == 2      \* longest list of building elements
MaxDen == 2            \* largest denominator of a directly drawn number
MaxCount == 3          \* largest building_count drawn for the estimator alone

(* Program constants *)

DEFAULT_SPEED == 50            \* get_speed_limit's fallback, and the empty mean
DEFAULT_FLOORS == 1            \* avg_floors when no level was collected
RADIUS == 5000                 \* radius passed by get_5g_config
OCCUPANTS_PER_FLOOR == 30      \* occupants_per_floor passed by get_5g_config
M_PER_KM == 1000
BIG_CAPITAL_DENSITY == 5000
URBAN_DENSITY == 1000
FLOORS_LIMIT == 3
HIGH_SPEED == 70
MODERATE_SPEED == 50
HTTP_OK == 200
PiNum == 355                   \* math.pi as PiNum / PiDen
PiDen == 113

----------------------------------------------------------------------------
(* Exact fractions *)

Abs(n) == IF n < 0 THEN -n ELSE n

RECURSIVE Gcd(_, _)
Gcd(a, b) == IF b = 0 THEN a ELSE Gcd(b, a % b)

Rat(n, d) == [num |-> n, den |-> d]

\* n / d in lowest terms, d > 0
Norm(n, d) ==
    LET g == Gcd(Abs(n), d)
    IN  IF g = 0 THEN Rat(0, 1) ELSE Rat(n \div g, d \div g)

RatLt(a, b) == a.num * b.den < b.num * a.den
RatLe(a, b) == a.num * b.den <= b.num * a.den
RatEq(a, b) == a.num * b.den = b.num * a.den
RatGe(a, b) == RatLe(b, a)
RatGt(a, b) == RatLt(b, a)
Int2Rat(n) == Rat(n, 1)

----------------------------------------------------------------------------
(* Python's int() on a string, and truthiness *)

Digits == <<"0", "1", "2", "3", "4", "5", "6", "7", "8", "9">>

IsDigit(c) == \E i \in 1..10 : Digits[i] = c

DigitValue(c) == (CHOOSE i \in 1..10 : Digits[i] = c) - 1

RECURSIVE DigitsValue(_)
DigitsValue(s) ==
    IF s = <<>> THEN 0
    ELSE 10 * DigitsValue(SubSeq(s, 1, Len(s) - 1)) + DigitValue(s[Len(s)])

AllDigits(s) == Len(s) > 0 /\ \A i \in 1..Len(s) : IsDigit(s[i])

HasSign(s) == Len(s) > 0 /\ s[1] \in {"-", "+"}

\* int(s) raises ValueError unless s is an optional sign and then digits
IntParses(s) == IF HasSign(s) THEN AllDigits(Tail(s)) ELSE AllDigits(s)

IntOf(s) ==
    IF HasSign(s)
    THEN (IF s[1] = "-" THEN -1 ELSE 1) * DigitsValue(Tail(s))
    ELSE DigitsValue(s)

\* dict.get(key): the value, or None
None == [some |-> FALSE, v |-> <<>>]
Get(d, k) == IF k \in DOMAIN d THEN [some |-> TRUE, v |-> d[k]] ELSE None

\* truth value of a string or None: None and "" are false
Truthy(o) == o.some /\ o.v # <<>>

\* a or b
PyOr(a, b) == IF Truthy(a) THEN a ELSE b

----------------------------------------------------------------------------
(* app.py: the aggregation of the road elements *)

RECURSIVE Sum(_)
Sum(s) == IF s = <<>> THEN 0 ELSE Head(s) + Sum(Tail(s))

\* sum(values) / len(values), for a non-empty list
Mean(values) == Norm(Sum(values), Len(values))

\* get_speed_limit with 0 in place of the default
get_speed_limit_zero(value) ==
    IF IntParses(value) THEN IntOf(value) ELSE 0

get_speed_limit(value) ==
    IF IntParses(value) THEN IntOf(value) ELSE DEFAULT_SPEED

\* [get_speed_limit(way["tags"].get("maxspeed", "50")) for way in elements
\*      if "tags" in way and "maxspeed" in way["tags"]]
RECURSIVE speed_values(_)
speed_values(elements) ==
    IF elements = <<>> THEN <<>>
    ELSE LET way == Head(elements)
             rest == speed_values(Tail(elements))
         IN  IF "tags" \in DOMAIN way /\ "maxspeed" \in DOMAIN way.tags
             THEN <<get_speed_limit(way.tags["maxspeed"])>> \o rest
             ELSE rest

\* a fetched value is None or a JSON object
HasElements(data) ==
    ~data.isNone /\ DOMAIN data.json # {} /\ "elements" \in DOMAIN data.json

road_stats(data) ==
    IF HasElements(data)
    THEN LET sv == speed_values(data.json["elements"])
         IN  [avg_speed  |-> IF sv # <<>> THEN Mean(sv) ELSE Int2Rat(DEFAULT_SPEED),
              road_count |-> Len(data.json["elements"])]
    ELSE [avg_speed |-> Int2Rat(DEFAULT_SPEED), road_count |-> 0]

----------------------------------------------------------------------------
(* app.py: the aggregation of the building elements *)

RECURSIVE get_building_levels(_)
get_building_levels(elements) ==
    IF elements = <<>> THEN <<>>
    ELSE LET element == Head(elements)
             rest == get_building_levels(Tail(elements))
         IN  IF "tags" \in DOMAIN element
             THEN LET level_value == PyOr(Get(element.tags, "building:levels"),
                                          Get(element.tags, "levels"))
                  IN  IF Truthy(level_value) /\ IntParses(level_value.v)
                      THEN <<IntOf(level_value.v)>> \o rest
                      ELSE rest
             ELSE rest

\* building_stats with no default for avg_floors when there is no data
building_stats_no_default(data) ==
    IF HasElements(data)
    THEN LET floor_list == get_building_levels(data.json["elements"])
         IN  [building_count |-> Len(data.json["elements"]),
              avg_floors |-> IF floor_list # <<>> THEN Mean(floor_list)
                             ELSE Int2Rat(DEFAULT_FLOORS)]
    ELSE [building_count |-> 0, avg_floors |-> Int2Rat(0)]

building_stats(data) ==
    IF HasElements(data)
    THEN LET floor_list == get_building_levels(data.json["elements"])
         IN  [building_count |-> Len(data.json["elements"]),
              avg_floors |-> IF floor_list # <<>> THEN Mean(floor_list)
                             ELSE Int2Rat(DEFAULT_FLOORS)]
    ELSE [building_count |-> 0, avg_floors |-> Int2Rat(DEFAULT_FLOORS)]

----------------------------------------------------------------------------
(* app.py: the density estimate.  The result is a value or a raised error. *)

Returned(v) == [raised |-> "", value |-> v]
Raised(e) == [raised |-> e, value |-> Int2Rat(0)]

estimate_population_density(bc, floors, r, opf) ==
    LET radius_km == Norm(r, M_PER_KM)
        \* area_km2 = math.pi * ((radius / 1000) ** 2)
        area_km2 == Rat(PiNum * radius_km.num * radius_km.num,
                        PiDen * radius_km.den * radius_km.den)
        \* estimated_population = building_count * avg_floors * occupants_per_floor
        estimated_population == Rat(bc * floors.num * opf, floors.den)
    IN  IF area_km2.num = 0
        THEN Raised("ZeroDivisionError")
        ELSE Returned(Norm(estimated_population.num * area_km2.den,
                           estimated_population.den * area_km2.num))

----------------------------------------------------------------------------
(* app.py: the decision table *)

\* lines 80-127: the nested conditions
decision_table(speed, density, floors) ==
    IF RatGe(density, Int2Rat(BIG_CAPITAL_DENSITY))
    THEN IF RatLt(floors, Int2Rat(FLOORS_LIMIT))
         THEN [area_type |-> "Big Capital", frequency |-> "3.5 GHz",
               cyclic_prefix |-> "Normal",
               subcarrier |-> IF RatGe(speed, Int2Rat(HIGH_SPEED)) THEN "60 kHz"
                              ELSE IF RatLt(speed, Int2Rat(MODERATE_SPEED)) THEN "30 kHz"
                              ELSE "15 kHz"]
         ELSE [area_type |-> "Big Capital", frequency |-> "3.0 GHz",
               cyclic_prefix |-> "Normal",
               subcarrier |-> IF RatGt(speed, Int2Rat(HIGH_SPEED)) THEN "30 kHz"
                              ELSE IF RatGt(speed, Int2Rat(MODERATE_SPEED)) THEN "15 kHz"
                              ELSE "15 kHz"]
    ELSE IF RatLe(Int2Rat(URBAN_DENSITY), density)
            /\ RatLt(density, Int2Rat(BIG_CAPITAL_DENSITY))
    THEN [area_type |-> "Urban", frequency |-> "700 MHz",
          cyclic_prefix |-> "Extended",
          subcarrier |-> IF RatLt(floors, Int2Rat(FLOORS_LIMIT))
                         THEN IF RatGt(speed, Int2Rat(HIGH_SPEED)) THEN "120 kHz"
                              ELSE IF RatGt(speed, Int2Rat(MODERATE_SPEED)) THEN "60 kHz"
                              ELSE "30 kHz"
                         ELSE IF RatGt(speed, Int2Rat(HIGH_SPEED)) THEN "60 kHz"
                              ELSE IF RatGt(speed, Int2Rat(MODERATE_SPEED)) THEN "30 kHz"
                              ELSE "30 kHz"]
    ELSE [area_type |-> "Rural/Mountain", frequency |-> "500 MHz",
          cyclic_prefix |-> "Extended",
          subcarrier |-> IF RatGt(speed, Int2Rat(HIGH_SPEED)) THEN "120 kHz"
                         ELSE IF RatGt(speed, Int2Rat(MODERATE_SPEED)) THEN "60 kHz"
                         ELSE "30 kHz"]

\* the table with "population_density > 5000" for the first tier
determine_5g_config_strict_tier(speed, density, floors) ==
    IF RatEq(density, Int2Rat(BIG_CAPITAL_DENSITY))
    THEN decision_table(speed, Rat(BIG_CAPITAL_DENSITY - 1, 1), floors)
    ELSE decision_table(speed, density, floors)

\* the table with "avg_speed > 70" in the first Big Capital branch
determine_5g_config_strict_speed(speed, density, floors) ==
    LET c == decision_table(speed, density, floors)
    IN  IF c.frequency = "3.5 GHz" /\ RatEq(speed, Int2Rat(HIGH_SPEED))
        THEN [c EXCEPT !.subcarrier = "15 kHz"]
        ELSE c

\* the table with "avg_floors <= 3" for the Big Capital frequency
determine_5g_config_floors_le(speed, density, floors) ==
    LET c == decision_table(speed, density, floors)
    IN  IF c.area_type = "Big Capital" /\ RatEq(floors, Int2Rat(FLOORS_LIMIT))
        THEN [c EXCEPT !.frequency = "3.5 GHz"]
        ELSE c

\* lines 57-134: the configuration returned
determine_5g_config(speed, density, floors) ==
    decision_table(speed, density, floors)

NoConfig == [area_type |-> "", frequency |-> "", cyclic_prefix |-> "", subcarrier |-> ""]

----------------------------------------------------------------------------
(* What the collaborators hand to the handler *)

SeqsUpTo(S, n) == UNION {[1..k -> S] : k \in 0..n}

\* request.args.get(...): absent, empty, or a coordinate
ArgValues == {None, [some |-> TRUE, v |-> <<>>], [some |-> TRUE, v |-> <<"4", "8">>]}

RoadTagValues == {<<"3", "0">>, <<"9", "0">>, <<"w", "a", "l", "k">>}

Highway == "highway" :> <<"r", "o", "a", "d">>

RoadElements ==
    {[type |-> "way"], [type |-> "way", tags |-> Highway]}
    \cup {[type |-> "way", tags |-> Highway @@ ("maxspeed" :> v)] : v \in RoadTagValues}

BuildingLevelsValues == {<<>>, <<"x">>, <<"0">>, <<"3">>, <<"-", "2">>}
LevelsValues == {<<"4">>, <<"x">>}

Building == "building" :> <<"y", "e", "s">>

BuildingTags ==
    {Building}
    \cup {Building @@ ("building:levels" :> b) : b \in BuildingLevelsValues}
    \cup {Building @@ ("levels" :> l) : l \in LevelsValues}
    \cup {Building @@ ("building:levels" :> b) @@ ("levels" :> <<"4">>) :
             b \in BuildingLevelsValues}

BuildingElements ==
    {[type |-> "way"]} \cup {[type |-> "way", tags |-> t] : t \in BuildingTags}

\* fetch_osm_data: None on a status other than 200, else the decoded JSON object
NoData == [isNone |-> TRUE, json |-> <<>>]
Json(obj) == [isNone |-> FALSE, json |-> obj]

FetchResults(Elements, n) ==
    {NoData, Json(<<>>), Json("remark" :> <<"e", "r", "r">>)}
    \cup {Json("elements" :> es) : es \in SeqsUpTo(Elements, n)}

RoadFetchResults == FetchResults(RoadElements, MaxRoads)
BuildingFetchResults == FetchResults(BuildingElements, MaxBuildings)

----------------------------------------------------------------------------
(* app.py: the handler of /api/5g_config.  One request is evaluated; its    *)
(* locals do not outlive it.                                                *)

Idle == [op |-> "", status |-> 0]

InitExtractOff ==
    /\ x_mode = [mode |-> "", has_lat |-> FALSE, has_lon |-> FALSE]
    /\ x_pc = "off" /\ x_files = <<>> /\ x_status = <<>> /\ x_read = {}

Init ==
    /\ lat = None /\ lon = None
    /\ road_data = NoData /\ building_data = NoData
    /\ avg_speed = Int2Rat(0) /\ road_count = 0
    /\ building_count = 0 /\ avg_floors = Int2Rat(0)
    /\ radius = RADIUS /\ occupants_per_floor = OCCUPANTS_PER_FLOOR
    /\ population_density = Returned(Int2Rat(0))
    /\ config = NoConfig
    /\ response = Idle
    /\ InitExtractOff

get_5g_config ==
    \E la \in ArgValues, lo \in ArgValues :
        /\ response = Idle /\ x_pc = "off"
        /\ lat' = la /\ lon' = lo
        /\ \/ /\ ~Truthy(la) \/ ~Truthy(lo)
              /\ response' = [op |-> "get_5g_config", status |-> 400]
              /\ road_data' = NoData /\ building_data' = NoData
              /\ avg_speed' = Int2Rat(0) /\ road_count' = 0
              /\ building_count' = 0 /\ avg_floors' = Int2Rat(0)
              /\ population_density' = Returned(Int2Rat(0))
              /\ config' = NoConfig
           \/ /\ Truthy(la) /\ Truthy(lo)
              /\ \E rd \in RoadFetchResults, bd \in BuildingFetchResults :
                    LET rs == road_stats(rd)
                        bs == building_stats(bd)
                        pd == estimate_population_density(
                                  bs.building_count, bs.avg_floors,
                                  RADIUS, OCCUPANTS_PER_FLOOR)
                    IN  /\ road_data' = rd /\ building_data' = bd
                        /\ avg_speed' = rs.avg_speed /\ road_count' = rs.road_count
                        /\ building_count' = bs.building_count
                        /\ avg_floors' = bs.avg_floors
                        /\ population_density' = pd
                        /\ IF pd.raised = ""
                           THEN /\ config' = determine_5g_config(
                                                 rs.avg_speed, pd.value, bs.avg_floors)
                                /\ response' = [op |-> "get_5g_config", status |-> HTTP_OK]
                           ELSE /\ config' = NoConfig
                                /\ response' = [op |-> "get_5g_config", status |-> 500]
        /\ UNCHANGED <<radius, occupants_per_floor>>
        /\ UNCHANGED extractVars

Next == get_5g_config

Spec == Init /\ [][Next]_vars

----------------------------------------------------------------------------
(* app.py: determine_5g_config alone, on inputs drawn from a grid around    *)
(* its thresholds                                                           *)

SpeedNums == {0, 30, 40, 49, 50, 51, 69, 70, 71, 80, 99, 100, 101, 139, 140, 141}
DensityNums == {0, 500, 999, 1000, 1001, 1999, 2000, 2001, 4999, 5000, 5001,
                6000, 9999, 10000, 10001}
FloorNums == 0..7

SpeedInputs == {Norm(n, d) : n \in SpeedNums, d \in 1..MaxDen}
DensityInputs == {Norm(n, d) : n \in DensityNums, d \in 1..MaxDen}
FloorInputs == {Norm(n, d) : n \in FloorNums, d \in 1..MaxDen}

InitClassify ==
    /\ lat = None /\ lon = None
    /\ road_data = NoData /\ building_data = NoData
    /\ avg_speed \in SpeedInputs /\ road_count = 0
    /\ building_count = 0 /\ avg_floors \in FloorInputs
    /\ radius = RADIUS /\ occupants_per_floor = OCCUPANTS_PER_FLOOR
    /\ population_density \in {Returned(d) : d \in DensityInputs}
    /\ config = NoConfig
    /\ response = Idle
    /\ InitExtractOff

call_determine_5g_config ==
    /\ response = Idle /\ x_pc = "off"
    /\ config' = determine_5g_config(avg_speed, population_density.value, avg_floors)
    /\ response' = [op |-> "determine_5g_config", status |-> 0]
    /\ UNCHANGED <<lat, lon, road_data, building_data, avg_speed, road_count,
                   building_count, avg_floors, radius, occupants_per_floor,
                   population_density>>
    /\ UNCHANGED extractVars

NextClassify == call_determine_5g_config

SpecClassify == InitClassify /\ [][NextClassify]_vars

----------------------------------------------------------------------------
(* app.py: estimate_population_density alone *)

RadiusInputs == {-5000, -1000, 0, 500, 1000, 5000}
OccupantsInputs == {1, OCCUPANTS_PER_FLOOR}

InitDensity ==
    /\ lat = None /\ lon = None
    /\ road_data = NoData /\ building_data = NoData
    /\ avg_speed = Int2Rat(0) /\ road_count = 0
    /\ building_count \in 0..MaxCount /\ avg_floors \in FloorInputs
    /\ radius \in RadiusInputs /\ occupants_per_floor \in OccupantsInputs
    /\ population_density = Returned(Int2Rat(0))
    /\ config = NoConfig
    /\ response = Idle
    /\ InitExtractOff

call_estimate_population_density ==
    /\ response = Idle /\ x_pc = "off"
    /\ population_density' = estimate_population_density(
                                 building_count, avg_floors, radius, occupants_per_floor)
    /\ response' = [op |-> "estimate_population_density", status |-> 0]
    /\ UNCHANGED <<lat, lon, road_data, building_data, avg_speed, road_count,
                   building_count, avg_floors, radius, occupants_per_floor, config>>
    /\ UNCHANGED extractVars

NextDensity == call_estimate_population_density

SpecDensity == InitDensity /\ [][NextDensity]_vars

----------------------------------------------------------------------------
(* extract_map.py: main.  A file is missing, stale (left by an earlier     *)
(* run) or fresh (written by this run).                                     *)

JsonFile == [road |-> "road_json", building |-> "building_json"]
GeojsonFile == [road |-> "road_geojson", building |-> "building_geojson"]
Files == {"road_json", "building_json", "road_geojson", "building_geojson"}
StatusCodes == {HTTP_OK, 429, 504}

InitExtract ==
    /\ lat = None /\ lon = None
    /\ road_data = NoData /\ building_data = NoData
    /\ avg_speed = Int2Rat(0) /\ road_count = 0
    /\ building_count = 0 /\ avg_floors = Int2Rat(0)
    /\ radius = RADIUS /\ occupants_per_floor = OCCUPANTS_PER_FLOOR
    /\ population_density = Returned(Int2Rat(0))
    /\ config = NoConfig
    /\ response = Idle
    /\ x_mode \in {[mode |-> "static", has_lat |-> FALSE, has_lon |-> FALSE]}
                  \cup [mode : {"dynamic"}, has_lat : BOOLEAN, has_lon : BOOLEAN]
    /\ x_pc = "parse_args"
    /\ x_files \in [Files -> {"missing", "stale"}]
    /\ x_status = [road |-> 0, building |-> 0]
    /\ x_read = {}

\* lines 101-141: the arguments; dynamic mode without --lat or --lon exits
parse_args ==
    /\ x_pc = "parse_args"
    /\ x_pc' = IF x_mode.mode = "dynamic" /\ (~x_mode.has_lat \/ ~x_mode.has_lon)
               THEN "exit" ELSE "fetch_road"
    /\ UNCHANGED <<x_mode, x_files, x_status, x_read>>
    /\ UNCHANGED appVars

\* fetch_osm_data(query, filename): the file is written on status 200 only
fetch_osm_data(kind, next) ==
    /\ x_pc = "fetch_" \o kind
    /\ \E status_code \in StatusCodes :
          /\ x_status' = [x_status EXCEPT ![kind] = status_code]
          /\ x_files' = IF status_code = HTTP_OK
                        THEN [x_files EXCEPT ![JsonFile[kind]] = "fresh"]
                        ELSE x_files
    /\ x_pc' = next
    /\ UNCHANGED <<x_mode, x_read>>
    /\ UNCHANGED appVars

\* convert_to_geojson(input_filename, output_filename): open() raises
\* FileNotFoundError on a missing input, which ends the run
convert_to_geojson(kind, next) ==
    /\ x_pc = "convert_" \o kind
    /\ x_read' = x_read \cup {[file |-> JsonFile[kind], was |-> x_files[JsonFile[kind]]]}
    /\ IF x_files[JsonFile[kind]] = "missing"
       THEN /\ x_pc' = "FileNotFoundError"
            /\ UNCHANGED x_files
       ELSE /\ x_pc' = next
            /\ x_files' = [x_files EXCEPT ![GeojsonFile[kind]] = "fresh"]
    /\ UNCHANGED <<x_mode, x_status>>
    /\ UNCHANGED appVars

\* lines 143-147
main ==
    \/ parse_args
    \/ fetch_osm_data("road", "fetch_building")
    \/ fetch_osm_data("building", "convert_road")
    \/ convert_to_geojson("road", "convert_building")
    \/ convert_to_geojson("building", "done")

NextExtract == main

SpecExtract == InitExtract /\ [][NextExtract]_vars

----------------------------------------------------------------------------
(* Properties of determine_5g_config (SpecClassify) *)

Classified == response.op = "determine_5g_config"

AtLeast(r, n) == r.num >= n * r.den
Below(r, n) == r.num < n * r.den
Above(r, n) == r.num > n * r.den
Exactly(r, n) == r.num = n * r.den

TableSubcarrier(s, d, f) ==
    IF AtLeast(d, 5000)
    THEN IF Below(f, 3)
         THEN (IF AtLeast(s, 70) THEN "60 kHz" ELSE IF Below(s, 50) THEN "30 kHz" ELSE "15 kHz")
         ELSE (IF Above(s, 70) THEN "30 kHz" ELSE "15 kHz")
    ELSE IF AtLeast(d, 1000)
    THEN IF Below(f, 3)
         THEN (IF Above(s, 70) THEN "120 kHz" ELSE IF Above(s, 50) THEN "60 kHz" ELSE "30 kHz")
         ELSE (IF Above(s, 70) THEN "60 kHz" ELSE "30 kHz")
    ELSE (IF Above(s, 70) THEN "120 kHz" ELSE IF Above(s, 50) THEN "60 kHz" ELSE "30 kHz")

Scenario(s, d, f) ==
    /\ Classified
    /\ Exactly(avg_speed, s) /\ Exactly(population_density.value, d) /\ Exactly(avg_floors, f)

C3_FrequencyAndPrefix ==
    Classified =>
        LET d == population_density.value
        IN  /\ AtLeast(d, 5000) /\ Below(avg_floors, 3)
                  => config.frequency = "3.5 GHz" /\ config.cyclic_prefix = "Normal"
            /\ AtLeast(d, 5000) /\ AtLeast(avg_floors, 3)
                  => config.frequency = "3.0 GHz" /\ config.cyclic_prefix = "Normal"
            /\ AtLeast(d, 1000) /\ Below(d, 5000)
                  => config.frequency = "700 MHz" /\ config.cyclic_prefix = "Extended"
            /\ Below(d, 1000)
                  => config.frequency = "500 MHz" /\ config.cyclic_prefix = "Extended"
            /\ (config.cyclic_prefix = "Normal") <=> (config.area_type = "Big Capital")
            /\ \A s \in SpeedInputs :
                   /\ determine_5g_config(s, d, avg_floors).frequency = config.frequency
                   /\ determine_5g_config(s, d, avg_floors).cyclic_prefix
                          = config.cyclic_prefix

C3_Witness ==
    /\ Scenario(40, 6000, 3)
    /\ config.frequency = "3.0 GHz" /\ config.cyclic_prefix = "Normal"

----------------------------------------------------------------------------
(* Properties of the handler (Spec) *)

Answered == response.op = "get_5g_config" /\ response.status = HTTP_OK

ElementsOf(data) ==
    IF "elements" \in DOMAIN data.json THEN data.json["elements"] ELSE <<>>

RECURSIVE SumOver(_, _)
SumOver(S, f) ==
    IF S = {} THEN 0
    ELSE LET x == CHOOSE y \in S : TRUE IN f[x] + SumOver(S \ {x}, f)

\* what the spec gives for each maxspeed value: the integer it writes, else 50
SpecSpeed(v) ==
    CASE v = <<"3", "0">> -> 30
      [] v = <<"9", "0">> -> 90
      [] OTHER -> 50

\* C5: avg_speed is the mean over the samples that carry maxspeed, an integer
\* literal counting as that integer and any other value as 50; it is 50 when
\* no sample carries maxspeed; road_count is the number of road samples.
C5_AvgSpeedIsMeanOverTagged ==
    Answered =>
        LET es == ElementsOf(road_data)
            tagged == {i \in 1..Len(es) :
                          "tags" \in DOMAIN es[i] /\ "maxspeed" \in DOMAIN es[i].tags}
            total == SumOver(tagged, [i \in tagged |-> SpecSpeed(es[i].tags["maxspeed"])])
        IN  /\ road_count = Len(es)
            /\ IF tagged = {}
               THEN Exactly(avg_speed, 50)
               ELSE avg_speed.num * Cardinality(tagged) = total * avg_speed.den

C5_Witness ==
    /\ Answered
    /\ LET es == ElementsOf(road_data)
       IN  /\ Len(es) = 2
           /\ "tags" \in DOMAIN es[1] /\ "maxspeed" \in DOMAIN es[1].tags
           /\ es[1].tags["maxspeed"] = <<"w", "a", "l", "k">>
           /\ "tags" \in DOMAIN es[2] /\ "maxspeed" \in DOMAIN es[2].tags
           /\ es[2].tags["maxspeed"] = <<"9", "0">>
    /\ Exactly(avg_speed, 70) /\ road_count = 2

\* a fetch that failed, or one that returned an empty list of elements
MissingOrEmpty(data) ==
    \/ data.isNone
    \/ "elements" \in DOMAIN data.json /\ data.json["elements"] = <<>>

Requested == response.op = "get_5g_config" /\ Truthy(lat) /\ Truthy(lon)

\* C8: a failed fetch and an empty element list give the same result: speed
\* 50 and 0 roads, 1 floor and 0 buildings; with both data sets empty or
\* missing the density is 0, the area type Rural/Mountain, and no error is
\* raised.
C8_MissingAndEmptyAlike ==
    Requested =>
        /\ MissingOrEmpty(road_data) => Exactly(avg_speed, 50) /\ road_count = 0
        /\ MissingOrEmpty(building_data) => Exactly(avg_floors, 1) /\ building_count = 0
        /\ MissingOrEmpty(road_data) /\ MissingOrEmpty(building_data)
              => /\ response.status = HTTP_OK
                 /\ population_density.raised = ""
                 /\ population_density.value.num = 0
                 /\ config.area_type = "Rural/Mountain"

C8_Witness ==
    /\ Requested
    /\ road_data.isNone
    /\ ~building_data.isNone /\ MissingOrEmpty(building_data)
    /\ config.area_type = "Rural/Mountain"

\* C4: the density is never negative, and it is 0 exactly when there is no
\* building, whatever integer the levels tags hold.
C4_DensityNonNegative ==
    Answered =>
        /\ population_density.value.num >= 0
        /\ (population_density.value.num = 0) <=> (building_count = 0)

\* what the spec reads from one building sample: building:levels, and levels
\* only when building:levels is absent
SpecLevelTag(e) ==
    IF "tags" \notin DOMAIN e THEN None
    ELSE IF "building:levels" \in DOMAIN e.tags
         THEN [some |-> TRUE, v |-> e.tags["building:levels"]]
    ELSE IF "levels" \in DOMAIN e.tags
         THEN [some |-> TRUE, v |-> e.tags["levels"]]
    ELSE None

SpecIsInteger(v) == v \in {<<"0">>, <<"3">>, <<"4">>, <<"-", "2">>}

SpecInteger(v) ==
    CASE v = <<"0">> -> 0
      [] v = <<"3">> -> 3
      [] v = <<"4">> -> 4
      [] v = <<"-", "2">> -> -2
      [] OTHER -> 0

\* C6: a sample's value is building:levels, or levels when building:levels
\* is absent; it is collected when it parses as an integer and skipped
\* otherwise; avg_floors is the mean of the collected values, or 1 when there
\* is none; building_count is the number of building samples.
C6_AvgFloorsIsMeanOverParsed ==
    Answered =>
        LET es == ElementsOf(building_data)
            collected == {i \in 1..Len(es) :
                             SpecLevelTag(es[i]).some /\ SpecIsInteger(SpecLevelTag(es[i]).v)}
            total == SumOver(collected,
                             [i \in collected |-> SpecInteger(SpecLevelTag(es[i]).v)])
        IN  /\ building_count = Len(es)
            /\ IF collected = {}
               THEN Exactly(avg_floors, 1)
               ELSE avg_floors.num * Cardinality(collected) = total * avg_floors.den

DensityOf(b, f) == estimate_population_density(b, f, RADIUS, OCCUPANTS_PER_FLOOR).value

\* C9: with the radius and the occupants fixed, the density does not decrease
\* when building_count grows, for every avg_floors the aggregation produces,
\* and does not decrease when avg_floors grows, for every building_count.
C9_DensityMonotone ==
    Answered =>
        /\ \A b1 \in 0..MaxCount, b2 \in 0..MaxCount :
               b1 <= b2 => RatLe(DensityOf(b1, avg_floors), DensityOf(b2, avg_floors))
        /\ \A b \in 0..MaxCount, f2 \in FloorInputs :
               RatLe(avg_floors, f2) => RatLe(DensityOf(b, avg_floors), DensityOf(b, f2))

----------------------------------------------------------------------------
(* Properties of estimate_population_density (SpecDensity) *)

\* C7: a call with radius <= 0 raises an error and returns no number.
C7_BadRadiusFails ==
    (response.op = "estimate_population_density" /\ radius <= 0)
        => population_density.raised # ""

----------------------------------------------------------------------------
(* Properties of extract_map.main (SpecExtract) *)

\* C10: convert_to_geojson opens a JSON file only after fetch_osm_data has
\* written it in the same run.
C10_ConvertReadsOnlyFresh ==
    \A r \in x_read : r.was = "fresh"

====
